---- MODULE Spec2Model ----
(***************************************************************************)
(* PPHighlighter (src/pp_highlighting/pp_highlighter.py): the scan driver  *)
(* _scan_string, the capture action installed by styler, and the fragment  *)
(* reconstruction loop of _highlight.  The pyparsing grammar is the        *)
(* environment: every preParse and _parse call is a choice among the       *)
(* outcomes the library's interface allows.                                *)
(***************************************************************************)
EXTENDS Integers, Sequences, FiniteSets, TLC

\* ------------------------------------------------------------------ bounds
MaxLen == 3                    \* longest input text
MaxCaps == 2                   \* styled sub-rule matches fired during one _parse call
MaxAttempts == MaxLen + 2      \* loop iterations of _scan_string that are explored
MaxFrags == 2 * MaxLen + 4     \* length of the FormattedText that is explored
DetLen == 1                    \* longest text of the runs with a deterministic grammar
ConcLen == 1                   \* longest text of the runs with two calls in flight
HtmlLen == 2                   \* longest text of the runs that render HTML

\* ------------------------------------------------------------------ values
Calls == {1, 2}
None == -1

\* a Python str is the sequence of its characters
ClassPrefix == <<"c", "l", "a", "s", "s", ":">>
ClassInt == ClassPrefix \o <<"i", "n", "t">>
Styles == {ClassInt}
default_style == <<>>

\* the input texts: the prefixes of a listing, and a number
Listing == <<"1", ",", "2", ";", "3", " ">>
Number == <<"4", "2">>
Prefix(text, n) == SubSeq(text, 1, IF n < Len(text) THEN n ELSE Len(text))
TextsTo(n) == {Prefix(Listing, k) : k \in 0..n} \cup {Prefix(Number, n)}
Texts == TextsTo(MaxLen)
NotStr == [type |-> "int", value |-> <<>>]
Str(text) == [type |-> "str", value |-> text]
Inputs == {Str(x) : x \in Texts} \cup {NotStr}

\* exceptions the grammar can raise; ParseBaseException is pyparsing's family
ParseBase == {"ParseException", "ParseFatalException"}
MatchErrors == {[type |-> "ParseException", msg |-> "Expected"],
                [type |-> "ValueError", msg |-> "bad"]}
SkipErrors == {[type |-> "ParseFatalException", msg |-> "Fatal"],
               [type |-> "ValueError", msg |-> "bad"]}
NoErr == [type |-> "", msg |-> ""]

\* ------------------------------------------------------------------ python helpers
\* s[a:b]
Slice(s, a, b) ==
  LET hi == IF b > Len(s) THEN Len(s) ELSE b
  IN IF hi <= a THEN <<>> ELSE SubSeq(s, a + 1, hi)

EmptyDict == [k \in {} |-> <<>>]

\* d[k] = v
DictSet(d, k, v) == [x \in (DOMAIN d) \cup {k} |-> IF x = k THEN v ELSE d[x]]

SetMin(S) == CHOOSE m \in S : \A y \in S : m <= y

RECURSIVE sorted(_)
sorted(S) == IF S = {} THEN <<>> ELSE <<SetMin(S)>> \o sorted(S \ {SetMin(S)})

\* st.startswith(prefix)
startswith(st, prefix) == Len(st) >= Len(prefix) /\ SubSeq(st, 1, Len(prefix)) = prefix

\* style.split(): the words between runs of whitespace
Whitespace == {" ", "\t", "\n"}

WordLen(str) ==
  IF \E k \in 1..Len(str) : str[k] \in Whitespace
  THEN SetMin({k \in 1..Len(str) : str[k] \in Whitespace}) - 1
  ELSE Len(str)

RECURSIVE split(_)
split(str) ==
  IF str = <<>> THEN <<>>
  ELSE IF Head(str) \in Whitespace THEN split(Tail(str))
  ELSE <<SubSeq(str, 1, WordLen(str))>> \o split(SubSeq(str, WordLen(str) + 1, Len(str)))

\* html.escape(str), quote=True
Escaped(c) ==
  CASE c = "&" -> <<"&", "a", "m", "p", ";">>
    [] c = "<" -> <<"&", "l", "t", ";">>
    [] c = ">" -> <<"&", "g", "t", ";">>
    [] c = "\"" -> <<"&", "q", "u", "o", "t", ";">>
    [] c = "'" -> <<"&", "#", "x", "2", "7", ";">>
    [] OTHER -> <<c>>

RECURSIVE escape(_)
escape(str) == IF str = <<>> THEN <<>> ELSE Escaped(Head(str)) \o escape(Tail(str))

\* sep.join(strs)
RECURSIVE join(_, _)
join(sep, strs) ==
  IF strs = <<>> THEN <<>>
  ELSE IF Len(strs) = 1 THEN strs[1]
  ELSE strs[1] \o sep \o join(sep, Tail(strs))

\* ------------------------------------------------------------------ state
NoLast == [kind |-> "none", from |-> None, next |-> None, e |-> NoErr, fired |-> 0,
           warned |-> <<>>]

VARIABLES
  _fragments,   \* self._fragments: the instance's capture table, loc -> (style, text)
  packrat,      \* whether the grammar library memoises _parse results (enablePackrat)
  cache,        \* the library's match cache: the (instring, loc) it holds a result for
  det,          \* the texts on which the grammar answers the same way every time
  grammar,      \* the answers the grammar has given on those texts so far
  first,        \* the outcome of the first finished highlight of each of those texts
  since,        \* how the call before this one ended, when det is not empty
  pc,           \* per call: "idle", "scan", "walk", "returned", "raised"
  s,            \* per call: the argument of _highlight
  loc,          \* per call: loc of _scan_string (the cursor)
  preloc,       \* per call: preloc of _scan_string, None before the first preParse
  attempts,     \* per call: iterations of the while loop of _scan_string so far
  last,         \* per call: what the last iteration of that loop did
  locs,         \* per call: locs of _highlight
  i,            \* per call: i of _highlight
  hloc,         \* per call: loc of _highlight (the position of the walk)
  fragments,    \* per call: the FormattedText being built
  spans,        \* per call: the <<start, end>> each fragment was sliced with
  err,          \* per call: the exception that left _highlight
  own,          \* per call: the captures fired by this call's own scan
  overlap,      \* per call: whether another call was in flight during this one
  styles,       \* the style arguments parser_factory passed to styler
  api,          \* per call: the public method called, highlight or highlight_html
  tags          \* per call: tags of highlight_html

vars == <<_fragments, packrat, cache, det, grammar, first, since, pc, s, loc, preloc, attempts,
          last, locs, i, hloc, fragments, spans, err, own, overlap, styles, api, tags>>

InitWith(cached, texts, wrapped) ==
  /\ _fragments = EmptyDict
  /\ packrat \in cached
  /\ cache = {}
  /\ det \in texts
  /\ grammar = EmptyDict
  /\ first = EmptyDict
  /\ since = {}
  /\ pc = [t \in Calls |-> "idle"]
  /\ s = [t \in Calls |-> <<>>]
  /\ loc = [t \in Calls |-> 0]
  /\ preloc = [t \in Calls |-> None]
  /\ attempts = [t \in Calls |-> 0]
  /\ last = [t \in Calls |-> NoLast]
  /\ locs = [t \in Calls |-> <<>>]
  /\ i = [t \in Calls |-> 0]
  /\ hloc = [t \in Calls |-> 0]
  /\ fragments = [t \in Calls |-> <<>>]
  /\ spans = [t \in Calls |-> <<>>]
  /\ err = [t \in Calls |-> NoErr]
  /\ own = [t \in Calls |-> EmptyDict]
  /\ overlap = [t \in Calls |-> FALSE]
  /\ styles \in wrapped
  /\ api = [t \in Calls |-> "none"]
  /\ tags = [t \in Calls |-> <<>>]

\* __init__, lines 70-73: an empty table; the library as imported memoises nothing
Init == InitWith({FALSE}, {{}}, {Styles})

\* ------------------------------------------------------------------ capture wrapper
\* styler's action: self._fragments[loc] = (style, s[loc:toks.pop()]); toks.pop() is
\* the end_loc Locator.parseImpl appended
action(d, text, at, style, end_loc) == DictSet(d, at, <<style, Slice(text, at, end_loc)>>)

\* the parse actions one _parse call fires, in order
RECURSIVE RunActions(_, _, _)
RunActions(d, text, caps) ==
  IF caps = <<>> THEN d
  ELSE RunActions(action(d, text, Head(caps).at, Head(caps).style, Head(caps).end_loc),
                  text, Tail(caps))

\* ------------------------------------------------------------------ the grammar
\* A styled sub-rule that matches text[at:end_loc] during _parse(s, p) fires action
\* with loc = at; p <= at <= end_loc <= n.  Two matches at the same offset leave the
\* later one in the table, so the matches of one _parse call are listed once per
\* offset, by offset.
CapsIn(p, n) == {c \in [at : p..n, end_loc : p..n, style : styles] : c.at <= c.end_loc}

IterCaps(p, n) ==
  {sq \in UNION {[1..k -> CapsIn(p, n)] : k \in 0..MaxCaps} :
     \A j \in 1..(Len(sq) - 1) : sq[j].at < sq[j + 1].at}

\* preParse(s, cur): an offset from cur on, or an exception
SkipAnswers(cur, n) ==
  [e : {NoErr}, p : cur..n] \cup [e : SkipErrors, p : {None}]

\* _parse(s, p, callPreParse=False): the end of a match or an exception, and the
\* styled sub-rules that matched on the way
ParseAnswers(p, n) ==
  ([e : {NoErr}, next : p..n] \cup [e : MatchErrors, next : {None}]) \X IterCaps(p, n)

NoParse == <<[e |-> NoErr, next |-> None], <<>>>>

\* on a text of det the grammar repeats the answer it gave before
Answers(kind, text, at, all) ==
  IF text \in det /\ <<kind, text, at>> \in DOMAIN grammar
  THEN {grammar[<<kind, text, at>>]}
  ELSE all

Learn(g, kind, text, at, answer) ==
  IF text \in det THEN DictSet(g, <<kind, text, at>>, answer) ELSE g

\* the library keeps successes and ParseBaseExceptions, nothing else
Cached(e) == e.type = "" \/ e.type \in ParseBase

\* ------------------------------------------------------------------ _highlight, entry
Idle(t) ==
  /\ pc' = [pc EXCEPT ![t] = "idle"]
  /\ s' = [s EXCEPT ![t] = <<>>]
  /\ loc' = [loc EXCEPT ![t] = 0]
  /\ preloc' = [preloc EXCEPT ![t] = None]
  /\ attempts' = [attempts EXCEPT ![t] = 0]
  /\ last' = [last EXCEPT ![t] = NoLast]
  /\ locs' = [locs EXCEPT ![t] = <<>>]
  /\ i' = [i EXCEPT ![t] = 0]
  /\ hloc' = [hloc EXCEPT ![t] = 0]
  /\ fragments' = [fragments EXCEPT ![t] = <<>>]
  /\ spans' = [spans EXCEPT ![t] = <<>>]
  /\ err' = [err EXCEPT ![t] = NoErr]
  /\ own' = [own EXCEPT ![t] = EmptyDict]
  /\ overlap' = [overlap EXCEPT ![t] = FALSE]
  /\ api' = [api EXCEPT ![t] = "none"]
  /\ tags' = [tags EXCEPT ![t] = <<>>]

KeepFragments(d) == d

\* line 136
ResetFragments(d) == EmptyDict

KeepCache(c) == c

\* line 112, pp.ParserElement.resetCache()
resetCache(c) == {}

InFlight(u) == pc[u] \in {"scan", "walk"}

_highlightResetFirst(t, x) ==
  /\ pc[t] = "idle"
  /\ _fragments' = ResetFragments(_fragments)
  /\ cache' = resetCache(cache)
  /\ IF x.type # "str"
     THEN /\ pc' = [pc EXCEPT ![t] = "raised"]
          /\ err' = [err EXCEPT ![t] = [type |-> "TypeError", msg |-> x.type]]
          /\ UNCHANGED <<s, loc, preloc, own, overlap>>
     ELSE /\ pc' = [pc EXCEPT ![t] = "scan"]
          /\ s' = [s EXCEPT ![t] = x.value]
          /\ loc' = [loc EXCEPT ![t] = 0]
          /\ preloc' = [preloc EXCEPT ![t] = None]
          /\ own' = [own EXCEPT ![t] = EmptyDict]
          /\ overlap' = [u \in Calls |-> IF u = t THEN \E v \in Calls \ {t} : InFlight(v)
                                         ELSE overlap[u] \/ InFlight(u)]
          /\ UNCHANGED err
  /\ UNCHANGED <<packrat, det, grammar, first, since, attempts, last, locs, i, hloc, fragments,
                 spans, styles, tags>>

\* lines 130-137 and 105-112: the type check, self._fragments = {}, then the head of
\* _scan_string: loc = 0, preloc = None, resetCache()
_highlight(t, x) ==
  /\ pc[t] = "idle"
  /\ IF x.type # "str"
     THEN /\ pc' = [pc EXCEPT ![t] = "raised"]
          /\ err' = [err EXCEPT ![t] = [type |-> "TypeError", msg |-> x.type]]
          /\ UNCHANGED <<_fragments, cache, s, loc, preloc, own, overlap>>
     ELSE /\ _fragments' = ResetFragments(_fragments)
          /\ cache' = resetCache(cache)
          /\ pc' = [pc EXCEPT ![t] = "scan"]
          /\ s' = [s EXCEPT ![t] = x.value]
          /\ loc' = [loc EXCEPT ![t] = 0]
          /\ preloc' = [preloc EXCEPT ![t] = None]
          /\ own' = [own EXCEPT ![t] = EmptyDict]
          /\ overlap' = [u \in Calls |-> IF u = t THEN \E v \in Calls \ {t} : InFlight(v)
                                         ELSE overlap[u] \/ InFlight(u)]
          /\ UNCHANGED err
  /\ UNCHANGED <<packrat, det, grammar, first, since, attempts, last, locs, i, hloc, fragments,
                 spans, styles, tags>>

\* lines 156-169, entered at line 166
highlight(t, x) == _highlight(t, x) /\ api' = [api EXCEPT ![t] = "highlight"]

\* lines 193-221, entered at line 205
highlight_html(t, x) == _highlight(t, x) /\ api' = [api EXCEPT ![t] = "highlight_html"]

\* ------------------------------------------------------------------ _scan_string, the loop
\* line 118: the exception leaves _scan_string when no preParse has returned yet
Reraise(p) == p = None

\* line 120
Retry(p) == p + 1

WarnedAlways(e, p) ==
  IF ~Reraise(p)
  THEN <<[category |-> "RuntimeWarning", type |-> e.type, msg |-> e.msg]>>
  ELSE <<>>

\* lines 121-123: what the except clause passes to warn()
Warned(e, p) ==
  IF ~Reraise(p) /\ e.type \notin ParseBase
  THEN <<[category |-> "RuntimeWarning", type |-> e.type, msg |-> e.msg]>>
  ELSE <<>>

\* lines 117-123: the except clause, entered with preloc as it stands
Except(t, e, p) ==
  IF Reraise(p)
  THEN /\ pc' = [pc EXCEPT ![t] = "raised"]
       /\ err' = [err EXCEPT ![t] = e]
       /\ UNCHANGED loc
  ELSE /\ loc' = [loc EXCEPT ![t] = Retry(p)]
       /\ UNCHANGED <<pc, err>>

\* line 125
Else(nextloc, cur, p) == IF nextloc > cur THEN nextloc ELSE p + 1

\* lines 113-125, one iteration: sk is what preParse answers, pa what _parse does
Iteration(t, sk, pa) ==
  LET cur == loc[t]
      text == s[t]
  IN IF sk.e # NoErr
     THEN \* preParse raises: preloc keeps the value of the previous iteration
          /\ Except(t, sk.e, preloc[t])
          /\ last' = [last EXCEPT ![t] = [kind |-> "skipfail", from |-> cur, next |-> None,
                                           e |-> sk.e, fired |-> 0, warned |-> Warned(sk.e, preloc[t])]]
          /\ grammar' = Learn(grammar, "skip", text, cur, sk)
          /\ UNCHANGED <<_fragments, own, preloc, cache>>
     ELSE LET p == sk.p
              r == pa[1]
              hit == packrat /\ <<text, p>> \in cache
              caps == IF hit THEN <<>> ELSE pa[2]
          IN /\ preloc' = [preloc EXCEPT ![t] = p]
             /\ _fragments' = RunActions(_fragments, text, caps)
             /\ own' = [own EXCEPT ![t] = RunActions(@, text, caps)]
             /\ cache' = IF packrat /\ Cached(r.e) THEN cache \cup {<<text, p>>} ELSE cache
             /\ grammar' = Learn(Learn(grammar, "skip", text, cur, sk), "parse", text, p, pa)
             /\ IF r.e = NoErr
                THEN /\ loc' = [loc EXCEPT ![t] = Else(r.next, cur, p)]
                     /\ last' = [last EXCEPT ![t] = [kind |-> "match", from |-> cur,
                                   next |-> r.next, e |-> NoErr, fired |-> Len(caps),
                                   warned |-> <<>>]]
                     /\ UNCHANGED <<pc, err>>
                ELSE /\ Except(t, r.e, p)
                     /\ last' = [last EXCEPT ![t] =
                                   [kind |-> IF r.e.type \in ParseBase THEN "nomatch" ELSE "fault",
                                    from |-> cur, next |-> None, e |-> r.e, fired |-> Len(caps),
                                    warned |-> Warned(r.e, p)]]

ScanStep(t) ==
  /\ pc[t] = "scan"
  /\ loc[t] <= Len(s[t])
  /\ attempts[t] < MaxAttempts
  /\ attempts' = [attempts EXCEPT ![t] = @ + 1]
  /\ \E sk \in Answers("skip", s[t], loc[t], SkipAnswers(loc[t], Len(s[t]))) :
       IF sk.e # NoErr
       THEN Iteration(t, sk, NoParse)
       ELSE \E pa \in Answers("parse", s[t], sk.p, ParseAnswers(sk.p, Len(s[t]))) :
              Iteration(t, sk, pa)
  /\ UNCHANGED <<packrat, det, first, since, s, locs, i, hloc, fragments, spans, overlap,
                 styles, api, tags>>

\* ------------------------------------------------------------------ _highlight, the walk
LocsNoSentinel(d, text) == sorted(DOMAIN d)

\* lines 138-139
Locs(d, text) == Append(sorted(DOMAIN d), Len(text))

\* the while loop of _scan_string ends; lines 138-143
ScanExit(t) ==
  /\ pc[t] = "scan"
  /\ loc[t] > Len(s[t])
  /\ pc' = [pc EXCEPT ![t] = "walk"]
  /\ locs' = [locs EXCEPT ![t] = Locs(_fragments, s[t])]
  /\ i' = [i EXCEPT ![t] = 0]
  /\ hloc' = [hloc EXCEPT ![t] = 0]
  /\ fragments' = [fragments EXCEPT ![t] = <<>>]
  /\ spans' = [spans EXCEPT ![t] = <<>>]
  /\ UNCHANGED <<_fragments, packrat, cache, det, grammar, first, since, s, loc, preloc,
                 attempts, last, err, own, overlap, styles, api, tags>>

\* self._fragments.get(loc): None, or the (style, text) tuple, which is always truthy
Get(d, k) == IF k \in DOMAIN d THEN d[k] ELSE <<>>

AdvanceOne(at, fragment) == at + 1

\* lines 147-149: the position after a styled fragment
Advance(at, fragment) == at + Len(fragment[2])

IndexError == [type |-> "IndexError", msg |-> "list index out of range"]

\* lines 145-152, the body of the while loop on the locals w of _highlight, reading
\* the table d; locs[i] is Python's 0-based index
WalkBody(text, d, w) ==
  LET fragment == Get(d, w.loc)
  IN IF fragment # <<>>
     THEN [w EXCEPT !.fragments = Append(@, fragment),
                    !.spans = Append(@, <<w.loc, Advance(w.loc, fragment)>>),
                    !.loc = Advance(@, fragment),
                    !.i = @ + 1]
     ELSE IF w.i < Len(w.locs)
     THEN [w EXCEPT !.fragments = Append(@, <<default_style, Slice(text, w.loc, w.locs[w.i + 1])>>),
                    !.spans = Append(@, <<w.loc, w.locs[w.i + 1]>>),
                    !.loc = w.locs[w.i + 1]]
     ELSE [w EXCEPT !.err = IndexError]

\* lines 144-152, one iteration
WalkStep(t) ==
  /\ pc[t] = "walk"
  /\ hloc[t] < Len(s[t])
  /\ Len(fragments[t]) < MaxFrags
  /\ LET w == WalkBody(s[t], _fragments,
                       [locs |-> locs[t], i |-> i[t], loc |-> hloc[t],
                        fragments |-> fragments[t], spans |-> spans[t], err |-> NoErr])
     IN /\ fragments' = [fragments EXCEPT ![t] = w.fragments]
        /\ spans' = [spans EXCEPT ![t] = w.spans]
        /\ hloc' = [hloc EXCEPT ![t] = w.loc]
        /\ i' = [i EXCEPT ![t] = w.i]
        /\ err' = [err EXCEPT ![t] = w.err]
        /\ pc' = [pc EXCEPT ![t] = IF w.err = NoErr THEN "walk" ELSE "raised"]
  /\ UNCHANGED <<_fragments, packrat, cache, det, grammar, first, since, s, loc, preloc,
                 attempts, last, locs, own, overlap, styles, api, tags>>

\* lines 138-154 on a table of its own: what _highlight makes of text and d
RECURSIVE Walk(_, _, _)
Walk(text, d, w) ==
  IF w.loc >= Len(text) \/ w.err # NoErr \/ Len(w.fragments) >= MaxFrags THEN w
  ELSE Walk(text, d, WalkBody(text, d, w))

Reconstruct(text, d) ==
  Walk(text, d, [locs |-> Locs(d, text), i |-> 0, loc |-> 0, fragments |-> <<>>,
                 spans |-> <<>>, err |-> NoErr])

\* ------------------------------------------------------------------ highlight_html
\* line 206: '<span class="highlight">'
SpanHighlight ==
  <<"<", "s", "p", "a", "n", " ", "c", "l", "a", "s", "s", "=", "\"",
    "h", "i", "g", "h", "l", "i", "g", "h", "t", "\"", ">">>

\* line 220: '</span>'
SpanEnd == <<"<", "/", "s", "p", "a", "n", ">">>

\* lines 207 and 217: '<span class="{}">{}</span>'.format(classes, text)
template(classes, text) ==
  <<"<", "s", "p", "a", "n", " ", "c", "l", "a", "s", "s", "=", "\"">> \o classes
    \o <<"\"", ">">> \o text \o SpanEnd

\* lines 213-215, on the words of the style still to go
RECURSIVE Classes(_)
Classes(words) ==
  IF words = <<>> THEN <<>>
  ELSE IF startswith(Head(words), ClassPrefix)
  THEN <<escape(SubSeq(Head(words), 7, Len(Head(words))))>> \o Classes(Tail(words))
  ELSE Classes(Tail(words))

\* line 216: classes and classes[0]
FirstClass(classes) == classes # <<>> /\ classes[1] # <<>>

\* lines 209-219, the body of the for loop, pygments_styles being False: the tag
\* appended for one fragment
Tag(fragment) ==
  LET classes == Classes(split(fragment[1]))
  IN IF FirstClass(classes)
     THEN template(join(<<" ">>, classes), escape(fragment[2]))
     ELSE escape(fragment[2])

\* line 208, one turn of the for loop: tags holds the opening tag and one tag for
\* every fragment already taken
HtmlStep(t) ==
  /\ pc[t] = "html"
  /\ Len(tags[t]) - 1 < Len(fragments[t])
  /\ tags' = [tags EXCEPT ![t] = Append(@, Tag(fragments[t][Len(tags[t])]))]
  /\ UNCHANGED <<_fragments, packrat, cache, det, grammar, first, since, pc, s, loc, preloc,
                 attempts, last, locs, i, hloc, fragments, spans, err, own, overlap, styles,
                 api>>

\* lines 220-221: the loop is over
HtmlReturn(t) ==
  /\ pc[t] = "html"
  /\ Len(tags[t]) - 1 = Len(fragments[t])
  /\ tags' = [tags EXCEPT ![t] = Append(@, SpanEnd)]
  /\ pc' = [pc EXCEPT ![t] = "returned"]
  /\ UNCHANGED <<_fragments, packrat, cache, det, grammar, first, since, s, loc, preloc,
                 attempts, last, locs, i, hloc, fragments, spans, err, own, overlap, styles,
                 api>>

\* line 221: ''.join(tags)
Html(t) == join(<<>>, tags[t])

\* line 154, and where the fragments go: to the caller of highlight (line 169,
\* pygments_styles being False), or into the loop of highlight_html (lines 205-207)
Return(t) ==
  /\ pc[t] = "walk"
  /\ hloc[t] >= Len(s[t])
  /\ IF api[t] = "highlight_html"
     THEN /\ pc' = [pc EXCEPT ![t] = "html"]
          /\ tags' = [tags EXCEPT ![t] = <<SpanHighlight>>]
     ELSE /\ pc' = [pc EXCEPT ![t] = "returned"]
          /\ UNCHANGED tags
  /\ UNCHANGED <<_fragments, packrat, cache, det, grammar, first, since, s, loc, preloc,
                 attempts, last, locs, i, hloc, fragments, spans, err, own, overlap, styles,
                 api>>

\* what the caller of highlight got
Outcome(t) ==
  [pc |-> pc[t], err |-> err[t],
   fragments |-> IF api[t] = "highlight_html" THEN <<>> ELSE fragments[t],
   html |-> IF api[t] = "highlight_html" /\ pc[t] = "returned" THEN Html(t) ELSE <<>>]

\* the caller has the result (or the exception); the call's frame is gone
Finish(t) ==
  /\ pc[t] \in {"returned", "raised"}
  /\ first' = IF s[t] \in det /\ err[t].type # "TypeError" /\ s[t] \notin DOMAIN first
              THEN DictSet(first, s[t], Outcome(t))
              ELSE first
  /\ since' = IF det = {} THEN since
              ELSE {IF err[t].type = "TypeError" THEN "rejected"
                    ELSE IF pc[t] = "raised" THEN "aborted"
                    ELSE IF s[t] \in det THEN "same" ELSE "other"}
  /\ Idle(t)
  /\ UNCHANGED <<_fragments, packrat, cache, det, grammar, styles>>

\* ------------------------------------------------------------------ specifications
\* calls on the instance one after the other (section 5: single-threaded use), the
\* grammar free to answer anything at every step
Caller == {1}

Next ==
  \E t \in Caller :
    \/ \E x \in Inputs : highlight(t, x)
    \/ ScanStep(t)
    \/ ScanExit(t)
    \/ WalkStep(t)
    \/ Return(t)
    \/ Finish(t)

Spec == Init /\ [][Next]_vars

\* the same calls, on a grammar that answers one text the same way every time, with
\* the library's match cache on or off
DetInputs == {Str(x) : x \in TextsTo(DetLen)} \cup {NotStr}

InitDet == InitWith(BOOLEAN, {{Prefix(Listing, DetLen)}}, {Styles})

NextDet ==
  \E t \in Caller :
    \/ \E x \in DetInputs : highlight(t, x)
    \/ ScanStep(t)
    \/ ScanExit(t)
    \/ WalkStep(t)
    \/ Return(t)
    \/ Finish(t)

SpecDet == InitDet /\ [][NextDet]_vars

\* two calls on the one instance in flight at once, switching between any two steps
\* on one text, with a grammar whose preParse never fails, that raises nothing but its
\* own no-match and fires at most one styled sub-rule in a _parse call
ConcInputs == {Str(Prefix(Listing, ConcLen))}

NextConc ==
  \E t \in Calls :
    \/ \E x \in ConcInputs : highlight(t, x)
    \/ ScanStep(t) /\ last'[t].kind \in {"match", "nomatch"} /\ last'[t].fired <= 1
    \/ ScanExit(t)
    \/ WalkStep(t)
    \/ Return(t)
    \/ Finish(t)

SpecConc == Init /\ [][NextConc]_vars

\* both public methods on short texts that need escaping, on an instance whose
\* parser_factory wrapped its sub-rules with one style string, with the library's
\* match cache on or off
Markup == <<"<", "&", "b", ">">>
Bold == <<"b", "o", "l", "d">>
HtmlStyles ==
  {ClassInt,                                         \* 'class:int'
   Bold,                                             \* 'bold'
   Bold \o <<" ">> \o ClassInt,                       \* 'bold class:int'
   ClassInt \o <<" ">> \o ClassPrefix \o <<"o", "p">>,  \* 'class:int class:op'
   ClassPrefix,                                      \* 'class:'
   ClassPrefix \o <<" ">> \o ClassInt}                \* 'class: class:int'

HtmlInputs == {Str(Prefix(Markup, k)) : k \in 0..HtmlLen} \cup {NotStr}

InitHtml == InitWith(BOOLEAN, {{}}, {{st} : st \in HtmlStyles})

NextHtml ==
  \E t \in Caller :
    \/ \E x \in HtmlInputs : highlight(t, x)
    \/ \E x \in HtmlInputs : highlight_html(t, x)
    \/ ScanStep(t)
    \/ ScanExit(t)
    \/ WalkStep(t)
    \/ Return(t)
    \/ HtmlStep(t)
    \/ HtmlReturn(t)
    \/ Finish(t)

SpecHtml == InitHtml /\ [][NextHtml]_vars

\* ------------------------------------------------------------------ properties
RECURSIVE Concat(_)
Concat(frs) == IF frs = <<>> THEN <<>> ELSE Head(frs)[2] \o Concat(Tail(frs))

\* C1: the texts of the fragments highlight(T) returns, concatenated in order, are T
C1_Fidelity ==
  \A t \in Calls : pc[t] = "returned" => Concat(fragments[t]) = s[t]

\* C2: in the walk the position never moves backwards and every fragment starts where
\* the previous one ended: the first at 0, the last, on return, ending at length(T)
C2_Gapless ==
  \A t \in Calls :
    pc[t] \in {"walk", "returned"} =>
      /\ \A k \in DOMAIN spans[t] : spans[t][k][1] <= spans[t][k][2]
      /\ \A k \in DOMAIN spans[t] :
           spans[t][k][1] = (IF k = 1 THEN 0 ELSE spans[t][k - 1][2])
      /\ (pc[t] = "returned" /\ spans[t] # <<>>) => spans[t][Len(spans[t])][2] = Len(s[t])

\* C3: every iteration of the scan loop leaves the cursor strictly greater than it
\* found it, so a scan makes at most length(T)+1 attempts
C3_CursorAdvances ==
  \A t \in Calls :
    /\ (last[t].kind # "none" /\ pc[t] # "raised") => loc[t] > last[t].from
    /\ attempts[t] <= Len(s[t]) + 1

\* C4: whenever preParse fails, in the first iteration or a later one, the scan stops
\* and the failure is raised to the caller
C4_SkipFailureRaised ==
  \A t \in Calls :
    last[t].kind = "skipfail" => (pc[t] = "raised" /\ err[t] = last[t].e)

\* C5: a fault in a match attempt at start emits exactly one diagnostic naming its
\* kind and message and sets the cursor to start+1 without aborting; an ordinary
\* no-match does the same and emits nothing; the scan ends only past length(T)
C5_FaultRecovered ==
  \A t \in Calls :
    /\ last[t].kind = "fault" =>
         /\ pc[t] # "raised"
         /\ last[t].warned = <<[category |-> "RuntimeWarning", type |-> last[t].e.type,
                                msg |-> last[t].e.msg]>>
         /\ loc[t] = preloc[t] + 1
    /\ last[t].kind = "nomatch" =>
         /\ pc[t] # "raised"
         /\ last[t].warned = <<>>
         /\ loc[t] = preloc[t] + 1
    /\ (pc[t] \in {"walk", "returned"} /\ last[t].kind \in {"fault", "nomatch"}) =>
         loc[t] > Len(s[t])

C5_Witness ==
  \E t \in Calls :
    /\ pc[t] = "returned"
    /\ last[t].kind = "fault"
    /\ attempts[t] > 1

\* the walk can never leave: the capture at the position has no text
Stuck(t) ==
  /\ pc[t] = "walk"
  /\ hloc[t] < Len(s[t])
  /\ hloc[t] \in DOMAIN _fragments
  /\ Len(_fragments[hloc[t]][2]) = 0

\* C6: a call raises only for an input that is not text or for a failed preParse; on
\* every text and every other grammar behaviour it returns its fragments
C6_OnlyTwoFailures ==
  \A t \in Calls :
    /\ pc[t] = "raised" =>
         \/ err[t].type = "TypeError"
         \/ last[t].kind = "skipfail" /\ err[t] = last[t].e
    /\ ~Stuck(t)

C7_Idempotent ==
  \A t \in Calls :
    (/\ pc[t] \in {"returned", "raised"}
     /\ err[t].type # "TypeError"
     /\ s[t] \in det
     /\ s[t] \in DOMAIN first) =>
      Outcome(t) = first[s[t]]

C7_Witness ==
  \E t \in Calls :
    /\ pc[t] = "returned"
    /\ s[t] \in det
    /\ s[t] \in DOMAIN first
    /\ since = {"other"}
    /\ packrat
    /\ \E k \in DOMAIN fragments[t] : fragments[t][k][1] # default_style

\* the captures are the scan's, none is empty, and no two overlap
Disjoint(d) ==
  /\ DOMAIN d # {}
  /\ \A a \in DOMAIN d : Len(d[a][2]) > 0
  /\ \A a, b \in DOMAIN d : a < b => a + Len(d[a][2]) <= b

\* the captures at the offsets ks, in order, and the text between, before and after
RECURSIVE Interleave(_, _, _, _)
Interleave(text, d, pos, ks) ==
  IF ks = <<>>
  THEN IF pos < Len(text) THEN <<<<default_style, Slice(text, pos, Len(text))>>>> ELSE <<>>
  ELSE LET a == Head(ks)
           end == a + Len(d[a][2])
       IN (IF pos < a THEN <<<<default_style, Slice(text, pos, a)>>>> ELSE <<>>)
          \o <<<<d[a][1], Slice(text, a, end)>>>>
          \o Interleave(text, d, end, Tail(ks))

\* C9: captures that are not empty and do not overlap come back in offset order as
\* styled fragments, with one default-style fragment, not empty, for every stretch
\* of T they leave uncovered, and nothing else
C9_DisjointCaptures ==
  \A t \in Calls :
    (pc[t] = "returned" /\ Disjoint(_fragments)) =>
      fragments[t] = Interleave(s[t], _fragments, 0, sorted(DOMAIN _fragments))

C9_Witness ==
  \E t \in Calls :
    /\ pc[t] = "returned"
    /\ s[t] = <<"1", ",", "2">>
    /\ Disjoint(_fragments)
    /\ fragments[t] = <<<<ClassInt, <<"1">>>>, <<default_style, <<",">>>>,
                        <<ClassInt, <<"2">>>>>>

\* C10: two highlight calls interleaved step by step on one instance each return
\* what they return when run alone, from the captures of their own scan only
C10_Isolated ==
  \A t \in Calls :
    (pc[t] = "returned" /\ Reconstruct(s[t], own[t]).loc >= Len(s[t])) =>
      fragments[t] = Reconstruct(s[t], own[t]).fragments

\* C10, as the code has it: a call during which no other call on the instance was in
\* flight walks a table that holds the captures of its own scan and nothing else, and
\* returns what those captures alone give
C10_SerialIsolated ==
  \A t \in Calls :
    ~overlap[t] =>
      /\ InFlight(t) => _fragments = own[t]
      /\ pc[t] = "returned" => fragments[t] = Reconstruct(s[t], own[t]).fragments

C10_Witness ==
  \E t \in Calls :
    /\ pc[t] = "returned"
    /\ ~overlap[t]
    /\ pc[3 - t] = "scan"
    /\ own[t] # EmptyDict
    /\ fragments[t] = <<<<ClassInt, s[t]>>>>
    /\ fragments[t] = Reconstruct(s[t], own[t]).fragments

\* the iteration just made by call t passed preParse, so _parse was attempted
Attempted(k) == k \in {"match", "nomatch", "fault"}

\* C11: a successful attempt made with cursor c at start, ending at next, leaves the
\* cursor at next when next > c and at start+1 otherwise, in both cases above c; the
\* scan then never attempts the same start again, and it makes at most length(T)+1
\* attempts
C11_ZeroWidthAdvances ==
  /\ [](\A t \in Calls :
          /\ last[t].kind = "match" =>
                /\ loc[t] = (IF last[t].next > last[t].from THEN last[t].next
                             ELSE preloc[t] + 1)
                /\ loc[t] > last[t].from
          /\ attempts[t] <= Len(s[t]) + 1)
  /\ [][\A t \in Calls :
          (/\ attempts'[t] = attempts[t] + 1
           /\ last[t].kind = "match"
           /\ Attempted(last'[t].kind)) => preloc'[t] # preloc[t]]_vars

\* fragment k of call t is a capture, not a stretch of default-style text
Styled(t, k) == fragments[t][k][1] # default_style

\* C12: once the walk has emitted the capture that starts at p with a text of length
\* n, no capture that starts strictly between p and p+n is emitted after it, and
\* none is the boundary that ends a later default-style fragment
C12_InnerSkipped ==
  \A t \in Calls :
    pc[t] \in {"walk", "returned"} =>
      \A k \in DOMAIN spans[t] :
        Styled(t, k) =>
          \A a \in DOMAIN _fragments :
            (spans[t][k][1] < a /\ a < spans[t][k][2]) =>
              \A j \in (k + 1)..Len(spans[t]) :
                /\ ~(Styled(t, j) /\ spans[t][j][1] = a)
                /\ ~(~Styled(t, j) /\ spans[t][j][2] = a)

\* C13: on every capture table the scan can leave, captures with empty text and
\* nested or overlapping ones included, the walk ends, and neither on the way nor on
\* return does it hold more than 2 x (number of captures) + 1 fragments
C13_WalkBounded ==
  \A t \in Calls :
    pc[t] \in {"walk", "returned"} =>
      Len(fragments[t]) <= 2 * Cardinality(DOMAIN _fragments) + 1

\* C14: an iteration of the scan whose _parse ends in a no-match or in a fault
\* leaves the capture table as it found it, also when a styled sub-rule had matched
\* inside the attempt before the enclosing grammar failed
C14_FailedAttemptRecordsNothing ==
  [][\A t \in Calls :
       (/\ attempts'[t] = attempts[t] + 1
        /\ last'[t].kind \in {"nomatch", "fault"}) => _fragments' = _fragments]_vars

\* the walk of call t is about to read locs[i]: no capture begins at the position
ReadsLocs(t) ==
  /\ pc[t] = "walk"
  /\ hloc[t] < Len(s[t])
  /\ Get(_fragments, hloc[t]) = <<>>

\* C17: whenever the walk reads locs at i, i is an index of locs (0-based, so below
\* its length), also after the position has jumped backwards and a capture has been
\* emitted again; no call ends in an IndexError
C17_IndexInRange ==
  \A t \in Calls :
    /\ ReadsLocs(t) => (0 <= i[t] /\ i[t] < Len(locs[t]))
    /\ err[t] # IndexError

\* the position went backwards to a capture inside the one just emitted, so that text
\* came out twice, and locs was read at its last index after that
C17_Witness ==
  \E t \in Calls :
    /\ pc[t] = "returned"
    /\ \E j \in DOMAIN spans[t] : spans[t][j][2] < spans[t][j][1]
    /\ Len(Concat(fragments[t])) > Len(s[t])
    /\ ~Styled(t, Len(fragments[t]))
    /\ i[t] = Len(locs[t]) - 1

\* C18: every default-style fragment of the walk has a text that is not empty: the
\* boundary read from locs lies strictly after the position the fragment starts at
C18_DefaultNotEmpty ==
  \A t \in Calls :
    pc[t] \in {"walk", "returned"} =>
      \A k \in DOMAIN fragments[t] :
        ~Styled(t, k) => (Len(fragments[t][k][2]) > 0 /\ spans[t][k][2] > spans[t][k][1])

\* C15: a call of highlight or highlight_html with a value that is not a str raises
\* TypeError in that very step, with the capture table, the match cache and every
\* other part of the instance as they were, and with no preParse or _parse made
C15_RejectedUnchanged ==
  [][\A t \in Calls : \A x \in HtmlInputs :
       (x.type # "str" /\ (highlight(t, x) \/ highlight_html(t, x))) =>
         /\ pc'[t] = "raised"
         /\ err'[t].type = "TypeError"
         /\ UNCHANGED <<_fragments, cache, packrat, styles, grammar>>
         /\ UNCHANGED <<s, loc, preloc, attempts, last, own, tags>>]_vars

\* highlight_html has rejected a value while the table and the cache held what the
\* call before had left
C15_Witness ==
  \E t \in Calls :
    /\ pc[t] = "raised"
    /\ err[t].type = "TypeError"
    /\ api[t] = "highlight_html"
    /\ _fragments # EmptyDict
    /\ cache # {}

\* the tag is the span template filled in
Wrapped(tag) == startswith(tag, SubSeq(SpanHighlight, 1, 13))

\* C16: the tag highlight_html appends for a fragment is the span, listing every
\* class of the style, exactly when some word of the style is class:<name> with a
\* name that is not empty, whichever word that is; otherwise it is the escaped text
C16_SpanIffClass ==
  \A t \in Calls :
    (api[t] = "highlight_html" /\ pc[t] \in {"html", "returned"}) =>
      \A k \in 1..Len(fragments[t]) :
        k + 1 <= Len(tags[t]) =>
          LET classes == Classes(split(fragments[t][k][1]))
              text == escape(fragments[t][k][2])
              tag == tags[t][k + 1]
          IN /\ Wrapped(tag) <=> (\E c \in DOMAIN classes : classes[c] # <<>>)
             /\ Wrapped(tag) => tag = template(join(<<" ">>, classes), text)
             /\ ~Wrapped(tag) => tag = text

====
